---- MODULE Spec2Model ----
(***************************************************************************)
(* druid/examples/multiwin.rs: the multi-window demo.                      *)
(*                                                                         *)
(* The model holds the shared State, the Delegate's window list, one Glow  *)
(* widget tree (Glow > ControllerHost(ContextMenuController) > Flex of     *)
(* buttons), the window menus built by make_menu and the host's queues     *)
(* (commands, new-window requests).  Every callback of the file is one     *)
(* operator; the host that drives the callbacks is the action layer.       *)
(***************************************************************************)
EXTENDS Integers, Sequences, FiniteSets, TLC

\* ------------------------------------------------------------------ bounds
\* The model's usize is scaled down to 0..MaxCount: MaxCount stands for
\* usize::MAX, the largest menu_count and selected.
MaxCount == 3
\* WindowId::next() is capped: at most MaxIds window descriptors are created.
MaxIds == 3

\* ------------------------------------------------------- program constants
BaseWidth == 300
WidthPerSelected == 100
WindowHeight == 500
DisabledEvery == 3

\* --------------------------------------------------------------- domains
\* cfg(target_os)/cfg(target_family) of the build.
Platforms == {"macos", "linux", "wasm"}
FileMenuPlatforms == {"windows", "linux", "openbsd"}

\* usize::MAX of the model.
UsizeMax == MaxCount

WindowIds == 1..MaxIds
MainWindow == 1

\* struct State { menu_count, selected, glow_hot }
States == [menu_count : 0..MaxCount, selected : 0..MaxCount, glow_hot : BOOLEAN]
DefaultState == [menu_count |-> 0, selected |-> 0, glow_hot |-> FALSE]

\* Commands the host may hand to the delegate, and their targets.
Commands == {"NEW_FILE", "CLOSE_WINDOW", "QUIT_APP", "SHOW_ABOUT"}
Targets == {[kind |-> "Global", window |-> 0], [kind |-> "Auto", window |-> 0]}
           \cup {[kind |-> "Window", window |-> w] : w \in WindowIds}

\* The widgets of ui_builder's content tree a pointer position can fall on.
Buttons == {"inc", "dec", "new", "quit"}
Positions == Buttons \cup {"label"}
NoButton == "none"
ButtonNames == {"left", "right", "middle"}

\* Event (the variants the controller can tell apart, and a key event).
Events == [type : {"MouseDown", "MouseUp"}, button : ButtonNames, pos : Positions]
          \cup [type : {"MouseMove"}, button : {"none"}, pos : Positions]
          \cup {[type |-> "KeyDown", button |-> "none", pos |-> "label"]}

\* LifeCycle events delivered to Glow::lifecycle.
LifeCycles == {[type |-> "HotChanged", hot |-> TRUE], [type |-> "HotChanged", hot |-> FALSE],
               [type |-> "FocusChanged", hot |-> FALSE], [type |-> "WidgetAdded", hot |-> FALSE]}

NoMenu == <<[title |-> "NoMenu", items |-> <<>>]>>

VARIABLES
    platform,       \* the target the program was built for
    running,        \* FALSE once Application::global().quit() was called
    data,           \* the shared State
    old_data,       \* the State the host showed the widgets at the last update
    pending_update, \* a handler ran and the host's update pass is still due
    windows,        \* Delegate.windows : Vec<WindowId>
    notif,          \* history: notifications the Delegate processed
    nextId,         \* WindowId::next()
    pending,        \* window descriptors handed to the host, not yet connected
    menus,          \* per window: the Menu built by make_menu, or NoMenu
    cmdQueue,       \* commands submitted and not yet dispatched
    is_hot,         \* ctx.is_hot() of the Glow widget
    paint_requested,\* ctx.request_paint() was called since the last paint
    ctxMenu,        \* the entries of the context menu on screen, <<>> for none
    last            \* history: the last callback and what it did

vars == <<platform, running, data, old_data, pending_update, windows, notif, nextId,
          pending, menus, cmdQueue, is_hot, paint_requested, ctxMenu, last>>

\* ------------------------------------------------------------ Vec helpers
\* Vec::iter().position(|x| *x == id): index of the first match, 0 for None.
RECURSIVE PositionFrom(_, _, _)
PositionFrom(ws, id, k) ==
    IF k > Len(ws) THEN 0
    ELSE IF ws[k] = id THEN k
    ELSE PositionFrom(ws, id, k + 1)

Position(ws, id) == PositionFrom(ws, id, 1)

\* Vec::remove(pos): drops the element at pos, shifting the rest left.
VecRemove(ws, pos) == SubSeq(ws, 1, pos - 1) \o SubSeq(ws, pos + 1, Len(ws))

\* ------------------------------------------------------------- Delegate
\* Delegate::window_added: self.windows.push(id).
window_added(ws, id) == Append(ws, id)

\* A removal that keeps only the matches (an inverted retain).
window_removed_retain(ws, id) == SelectSeq(ws, LAMBDA x : x = id)

\* A removal that falls back to the first element when the id is absent.
window_removed_first(ws, id) ==
    IF Len(ws) = 0 THEN ws
    ELSE VecRemove(ws, IF Position(ws, id) = 0 THEN 1 ELSE Position(ws, id))

\* A window_removed that cuts the list at the id (Vec::truncate).
window_removed_truncate(ws, id) ==
    IF Position(ws, id) # 0 THEN SubSeq(ws, 1, Position(ws, id) - 1) ELSE ws

\* A window_removed that fills the hole with the last element
\* (Vec::swap_remove).
window_removed_swap(ws, id) ==
    IF Position(ws, id) = 0 THEN ws
    ELSE IF Position(ws, id) = Len(ws) THEN SubSeq(ws, 1, Len(ws) - 1)
    ELSE [i \in 1..(Len(ws) - 1) |-> IF i = Position(ws, id) THEN ws[Len(ws)] ELSE ws[i]]

\* Delegate::window_removed: remove the first occurrence of id, if any.
window_removed(ws, id) ==
    IF Position(ws, id) # 0 THEN VecRemove(ws, Position(ws, id)) ELSE ws

\* WindowId::next(): every descriptor gets an id no other descriptor has.
WindowIdNext(n) == n + 1

\* WindowDesc::new(ui_builder()).menu(make_menu).window_size((selected*100+300, 500))
NewWindowDesc(id, state) ==
    [id |-> id, menu |-> "make_menu",
     size |-> <<state.selected * WidthPerSelected + BaseWidth, WindowHeight>>]

\* A command handler that tests the wrong command.
command_wrong_cmd(plat, target, cmd, state, id, popup) ==
    IF cmd = "CLOSE_WINDOW"
    THEN [handled |-> "Yes", requests |-> <<NewWindowDesc(id, state)>>, made |-> 1,
          state |-> state]
    ELSE [handled |-> "No", requests |-> <<>>, made |-> 0, state |-> state]

\* A command handler that asks the host for the window twice.
command_twice(plat, target, cmd, state, id, popup) ==
    IF cmd = "NEW_FILE"
    THEN [handled |-> "Yes",
          requests |-> <<NewWindowDesc(id, state), NewWindowDesc(id, state)>>, made |-> 1,
          state |-> state]
    ELSE [handled |-> "No", requests |-> <<>>, made |-> 0, state |-> state]

\* A command handler that clears the selection once the window is sized.
command_clears_selected(plat, target, cmd, state, id, popup) ==
    IF cmd = "NEW_FILE"
    THEN [handled |-> "Yes", requests |-> <<NewWindowDesc(id, state)>>, made |-> 1,
          state |-> [state EXCEPT !.selected = 0]]
    ELSE [handled |-> "No", requests |-> <<>>, made |-> 0, state |-> state]

\* Delegate::command.  popup is window.open()'s answer on wasm (TRUE: a
\* window, FALSE: None, the popup was blocked); the expect() calls of the
\* wasm block are the code's assertions and are taken to hold.  The result is
\* the Handled value, the descriptors passed to ctx.new_window, the number
\* of WindowDesc::new calls (each takes a fresh WindowId) and the State the
\* call leaves in data.
command(plat, target, cmd, state, id, popup) ==
    IF cmd = "NEW_FILE"
    THEN IF plat = "wasm" /\ ~popup
         THEN [handled |-> "Yes", requests |-> <<>>, made |-> 1, state |-> state]
         ELSE [handled |-> "Yes", requests |-> <<NewWindowDesc(id, state)>>, made |-> 1,
               state |-> state]
    ELSE [handled |-> "No", requests |-> <<>>, made |-> 0, state |-> state]

\* A command handler that notes the id of the window it asks for.
command_windows_push(ws, cmd, id) == IF cmd = "NEW_FILE" THEN Append(ws, id) ELSE ws

\* Delegate::command and self.windows: the handler does not touch the list.
command_windows(ws, cmd, id) == ws

\* window_added and window_removed get _data: &mut State and do not use it.
window_added_state(state, id) == state

window_removed_state(state, id) == state

\* ------------------------------------------------------------- make_menu
\* MenuItem::new(..i..).on_activate(..i..).enabled_if(..i..).selected_if(..i..):
\* each closure moves its own copy of the loop index.
MenuItem(i) == [label |-> i, on_activate |-> i, enabled_if |-> i, selected_if |-> i]

\* for i in 1..=menu_count { custom = custom.entry(MenuItem(i)) }
RECURSIVE CustomLoop(_, _, _)
CustomLoop(i, n, custom) ==
    IF i > n THEN custom ELSE CustomLoop(i + 1, n, Append(custom, MenuItem(i)))

\* The platform part of the menu: mac::menu_bar(), win::file::default(), or
\* nothing (Menu::empty()) on the other targets.
BaseMenu(plat) ==
    IF plat = "macos" THEN <<[title |-> "mac::menu_bar", items |-> <<>>]>>
    ELSE IF plat \in FileMenuPlatforms THEN <<[title |-> "win::file", items |-> <<>>]>>
    ELSE <<>>

\* A menu whose loop starts at 0 (0..menu_count).
make_menu_from_zero(plat, state) ==
    IF state.menu_count # 0
    THEN Append(BaseMenu(plat),
                [title |-> "Custom", items |-> CustomLoop(0, state.menu_count - 1, <<>>)])
    ELSE BaseMenu(plat)

\* make_menu: the entries of the Menu, in order.
make_menu(plat, state) ==
    IF state.menu_count # 0
    THEN Append(BaseMenu(plat),
                [title |-> "Custom", items |-> CustomLoop(1, state.menu_count, <<>>)])
    ELSE BaseMenu(plat)

\* An on_activate that stores the index after the item's own.
OnActivate_next_index(item, state) ==
    [state EXCEPT !.selected = (item.on_activate + 1) % (UsizeMax + 1)]

\* The closures of a menu item, applied to a State.
OnActivate(item, state) == [state EXCEPT !.selected = item.on_activate]

\* An enabled_if that enables every item.
EnabledIf_always(item, state) == TRUE

EnabledIf_inverted(item, state) == item.enabled_if % DisabledEvery = 0

EnabledIf(item, state) == item.enabled_if % DisabledEvery # 0

\* A selected_if that marks every item up to the selected one.
SelectedIf_up_to(item, state) == item.selected_if <= state.selected

SelectedIf(item, state) == item.selected_if = state.selected

\* A rebuild predicate that compares the whole State (Data::same).
rebuild_on_any_change(old, new) == old # new

\* A rebuild predicate that fires only when items are added.
rebuild_on_growth(old, new) == old.menu_count < new.menu_count

\* base.rebuild_on(|old_data, data, _env| old_data.menu_count != data.menu_count)
rebuild_on(old, new) == old.menu_count # new.menu_count

\* The Custom submenus of a menu (at most one), and its dynamic items.
CustomMenus(menu) == SelectSeq(menu, LAMBDA e : e.title = "Custom")

DynamicItems(menu) ==
    IF menu = NoMenu \/ Len(CustomMenus(menu)) = 0 THEN <<>> ELSE CustomMenus(menu)[1].items

\* ------------------------------------------------------ make_context_menu
make_context_menu ==
    <<[title |-> "Increment", on_activate |-> "inc"],
      [title |-> "Decrement", on_activate |-> "dec"],
      [title |-> "Glow when hot", on_activate |-> "glow"]>>

\* usize::saturating_sub(1)
SaturatingSub1(n) == IF n = 0 THEN 0 ELSE n - 1

\* The on_activate closures of the context menu and the on_click closures of
\* the Add / Remove buttons.
\* menu_count += 1 on usize: where the build checks overflow (debug) the
\* addition panics at usize::MAX, where it does not (release) it wraps.
IncrementOverflows(state) == state.menu_count = UsizeMax

Increment(state) == [state EXCEPT !.menu_count = (@ + 1) % (UsizeMax + 1)]

\* A decrement that also pulls the selection down to the new menu_count.
Decrement_clamp_selected(state) ==
    [state EXCEPT !.menu_count = SaturatingSub1(@),
                  !.selected = IF @ > SaturatingSub1(state.menu_count)
                               THEN SaturatingSub1(state.menu_count) ELSE @]

Decrement(state) == [state EXCEPT !.menu_count = SaturatingSub1(@)]

ToggleGlow(state) == [state EXCEPT !.glow_hot = ~@]

CtxOnActivate(entry, state) ==
    IF entry.on_activate = "inc" THEN Increment(state)
    ELSE IF entry.on_activate = "dec" THEN Decrement(state)
    ELSE ToggleGlow(state)

\* Whether the handler that runs control ("inc", "dec", ...) on state panics:
\* only the increment does, at usize::MAX, in a build with overflow checks.
Panics(control, state, checked) ==
    control = "inc" /\ IncrementOverflows(state) /\ checked

\* --------------------------------------------------------- the widget tree
\* A controller that opens the menu on the release of the right button.
controller_event_mouse_up(event) ==
    IF event.type = "MouseUp" /\ event.button = "right"
    THEN [shown |-> <<[menu |-> make_context_menu, pos |-> event.pos]>>, forwarded |-> <<>>]
    ELSE [shown |-> <<>>, forwarded |-> <<event>>]

\* ContextMenuController::event: the show_context_menu calls (menu, position)
\* and the events passed to child.event, in order.
controller_event(event) ==
    IF event.type = "MouseDown" /\ event.button = "right"
    THEN [shown |-> <<[menu |-> make_context_menu, pos |-> event.pos]>>, forwarded |-> <<>>]
    ELSE [shown |-> <<>>, forwarded |-> <<event>>]

\* The buttons of the child: the release of the left button over a button is
\* a click of that button (the button was pressed before).
ButtonClick(event) ==
    IF event.type = "MouseUp" /\ event.button = "left" /\ event.pos \in Buttons
    THEN event.pos ELSE NoButton

\* The button clicked by the events the controller forwards to the child.
ChildClick(forwarded) ==
    IF forwarded = <<>> THEN NoButton ELSE ButtonClick(forwarded[1])

\* A lifecycle handler that forgets to ask for the repaint.
glow_lifecycle_never(event, req) == req

\* Glow::lifecycle: whether a repaint is requested when the callback returns
\* (req: a request is already outstanding).
glow_lifecycle(event, req) == IF event.type = "HotChanged" THEN TRUE ELSE req

\* Glow::update, likewise.
glow_update(old, new, req) == IF old.glow_hot # new.glow_hot THEN TRUE ELSE req

\* A paint that looks at the flag alone.
glow_paint_flag_only(state, hot) == state.glow_hot

\* Glow::paint: whether the highlight brush is painted.
glow_paint(state, hot) == state.glow_hot /\ hot

\* --------------------------------------------------------------- Init
\* main: the main window's descriptor is handed to the launcher, the
\* delegate starts with Vec::new().
InitCommon ==
    /\ platform \in Platforms
    /\ running = TRUE
    /\ pending_update = FALSE
    /\ windows = <<>>
    /\ notif = [added |-> 0, removed |-> 0]
    /\ nextId = WindowIdNext(MainWindow)
    /\ pending = <<[id |-> MainWindow, menu |-> "make_menu", size |-> <<>>]>>
    /\ menus = [w \in WindowIds |-> NoMenu]
    /\ cmdQueue = <<>>
    /\ is_hot = FALSE
    /\ paint_requested = FALSE
    /\ ctxMenu = <<>>
    /\ last = [op |-> "launch"]

\* launch(State::default())
Init ==
    /\ InitCommon
    /\ data = DefaultState
    /\ old_data = DefaultState

\* The host is between two callbacks: no command and no update pass is due.
Idle == running /\ ~pending_update /\ cmdQueue = <<>>

\* ------------------------------------------------------------- actions
\* The host connects the next requested window and notifies the delegate.
WindowAdded ==
    /\ Idle
    /\ pending # <<>>
    /\ LET d == Head(pending) IN
        /\ windows' = window_added(windows, d.id)
        /\ data' = window_added_state(data, d.id)
        /\ menus' = [menus EXCEPT ![d.id] = make_menu(platform, data)]
        /\ last' = [op |-> "window_added", id |-> d.id, before |-> windows]
    /\ notif' = [notif EXCEPT !.added = @ + 1]
    /\ pending' = Tail(pending)
    /\ UNCHANGED <<platform, running, old_data, pending_update, nextId, cmdQueue,
                   is_hot, paint_requested, ctxMenu>>

\* The host notifies the delegate that window id is gone (any id: the
\* notification may come for a window the delegate never saw).
WindowRemoved(id) ==
    /\ Idle
    /\ windows' = window_removed(windows, id)
    /\ data' = window_removed_state(data, id)
    /\ menus' = [menus EXCEPT ![id] = NoMenu]
    /\ notif' = [notif EXCEPT !.removed =
                    IF \E k \in 1..Len(windows) : windows[k] = id THEN @ + 1 ELSE @]
    /\ last' = [op |-> "window_removed", id |-> id, before |-> windows]
    /\ UNCHANGED <<platform, running, old_data, pending_update, nextId, pending,
                   cmdQueue, is_hot, paint_requested, ctxMenu>>

\* A command reaches the host from a platform menu or the system.
SubmitCommand(cmd, target) ==
    /\ Idle
    /\ cmd = "NEW_FILE" => nextId <= MaxIds
    /\ cmdQueue' = Append(cmdQueue, [cmd |-> cmd, target |-> target])
    /\ UNCHANGED <<platform, running, data, old_data, pending_update, windows, notif,
                   nextId, pending, menus, is_hot, paint_requested, ctxMenu, last>>

\* The host hands the next command to Delegate::command.
DispatchCommand(popup) ==
    /\ running
    /\ cmdQueue # <<>>
    /\ LET c == Head(cmdQueue)
           r == command(platform, c.target, c.cmd, data, nextId, popup) IN
        /\ pending' = pending \o r.requests
        /\ data' = r.state
        /\ windows' = command_windows(windows, c.cmd, nextId)
        /\ nextId' = IF r.made = 1 THEN WindowIdNext(nextId) ELSE nextId
        /\ last' = [op |-> "command", cmd |-> c.cmd, target |-> c.target,
                    handled |-> r.handled, requests |-> r.requests,
                    blocked |-> (platform = "wasm" /\ ~popup)]
    /\ cmdQueue' = Tail(cmdQueue)
    /\ pending_update' = TRUE
    /\ UNCHANGED <<platform, running, old_data, notif, menus, is_hot, paint_requested,
                   ctxMenu>>

\* Glow::event -> ControllerHost -> ContextMenuController::event -> the
\* buttons' on_click closures.  checked: the build checks integer overflow.
Event(event, checked) ==
    /\ Idle
    /\ LET c == controller_event(event)
           click == ChildClick(c.forwarded)
           panic == Panics(click, data, checked) IN
        /\ ctxMenu' = IF c.shown # <<>> THEN c.shown[Len(c.shown)].menu ELSE ctxMenu
        /\ click = "new" => nextId <= MaxIds
        /\ data' = IF panic THEN data
                   ELSE IF click = "inc" THEN Increment(data)
                   ELSE IF click = "dec" THEN Decrement(data)
                   ELSE data
        /\ cmdQueue' = IF click = "new"
                       THEN Append(cmdQueue, [cmd |-> "NEW_FILE",
                                              target |-> [kind |-> "Global", window |-> 0]])
                       ELSE cmdQueue
        /\ running' = (click # "quit" /\ ~panic)
        /\ last' = [op |-> "event", event |-> event, shown |-> c.shown,
                    forwarded |-> c.forwarded, control |-> click, before |-> data,
                    panicked |-> panic]
    /\ pending_update' = TRUE
    /\ UNCHANGED <<platform, old_data, windows, notif, nextId, pending, menus, is_hot,
                   paint_requested>>

\* The user activates entry k of the context menu on screen.
CtxActivate(k, checked) ==
    /\ Idle
    /\ k \in 1..Len(ctxMenu)
    /\ LET panic == Panics(ctxMenu[k].on_activate, data, checked) IN
        /\ data' = IF panic THEN data ELSE CtxOnActivate(ctxMenu[k], data)
        /\ running' = ~panic
        /\ last' = [op |-> "ctx_activate", entry |-> k, title |-> ctxMenu[k].title,
                    control |-> ctxMenu[k].on_activate, before |-> data,
                    panicked |-> panic]
    /\ ctxMenu' = <<>>
    /\ pending_update' = TRUE
    /\ UNCHANGED <<platform, old_data, windows, notif, nextId, pending, menus,
                   cmdQueue, is_hot, paint_requested>>

\* The user activates dynamic item k of window w's menu; the host offers
\* only the items whose enabled_if holds.
MenuActivate(w, k) ==
    /\ Idle
    /\ k \in 1..Len(DynamicItems(menus[w]))
    /\ EnabledIf(DynamicItems(menus[w])[k], data)
    /\ data' = OnActivate(DynamicItems(menus[w])[k], data)
    /\ pending_update' = TRUE
    /\ last' = [op |-> "menu_activate", window |-> w, item |-> k, control |-> "select",
                before |-> data, panicked |-> FALSE]
    /\ UNCHANGED <<platform, running, old_data, windows, notif, nextId, pending, menus,
                   cmdQueue, is_hot, paint_requested, ctxMenu>>

\* The host's update pass after a handler: Glow::update with the old and the
\* new State, and every window's menu rebuilt when its rebuild_on says so.
Update ==
    /\ running
    /\ pending_update
    /\ cmdQueue = <<>>
    /\ paint_requested' = glow_update(old_data, data, paint_requested)
    /\ menus' = [w \in WindowIds |->
                    IF menus[w] # NoMenu /\ rebuild_on(old_data, data)
                    THEN make_menu(platform, data) ELSE menus[w]]
    /\ old_data' = data
    /\ pending_update' = FALSE
    /\ last' = [op |-> "update", glow_changed |-> (old_data.glow_hot # data.glow_hot),
                before |-> paint_requested]
    /\ UNCHANGED <<platform, running, data, windows, notif, nextId, pending, cmdQueue,
                   is_hot, ctxMenu>>

\* Glow::lifecycle; the host delivers HotChanged(h) when the widget's hot
\* state becomes h.
Lifecycle(event) ==
    /\ Idle
    /\ event.type = "HotChanged" => event.hot # is_hot
    /\ is_hot' = IF event.type = "HotChanged" THEN event.hot ELSE is_hot
    /\ paint_requested' = glow_lifecycle(event, paint_requested)
    /\ last' = [op |-> "lifecycle", event |-> event, before |-> paint_requested]
    /\ UNCHANGED <<platform, running, data, old_data, pending_update, windows, notif,
                   nextId, pending, menus, cmdQueue, ctxMenu>>

\* A paint pass (requested or not): Glow::paint.
Paint ==
    /\ Idle
    /\ paint_requested' = FALSE
    /\ last' = [op |-> "paint", highlight |-> glow_paint(data, is_hot),
                requested |-> paint_requested]
    /\ UNCHANGED <<platform, running, data, old_data, pending_update, windows, notif,
                   nextId, pending, menus, cmdQueue, is_hot, ctxMenu>>

\* ------------------------------------------------------ specifications
\* The whole program.
Next ==
    \/ WindowAdded
    \/ \E id \in WindowIds : WindowRemoved(id)
    \/ \E cmd \in Commands, target \in Targets : SubmitCommand(cmd, target)
    \/ \E popup \in BOOLEAN : DispatchCommand(popup)
    \/ \E event \in Events, checked \in BOOLEAN : Event(event, checked)
    \/ \E k \in 1..Len(make_context_menu), checked \in BOOLEAN : CtxActivate(k, checked)
    \/ \E w \in WindowIds, k \in 1..MaxCount : MenuActivate(w, k)
    \/ Update
    \/ \E event \in LifeCycles : Lifecycle(event)
    \/ Paint

Spec == Init /\ [][Next]_vars

\* The delegate and the host's window and command traffic; the widgets are
\* left alone.
NextDelegate ==
    \/ WindowAdded
    \/ \E id \in WindowIds : WindowRemoved(id)
    \/ \E cmd \in Commands, target \in Targets : SubmitCommand(cmd, target)
    \/ \E popup \in BOOLEAN : DispatchCommand(popup)
    \/ Update

SpecDelegate == Init /\ [][NextDelegate]_vars

\* One window's widget tree: events, the context menu, the buttons, the
\* commands they submit, lifecycle, update and paint.
NextWidget ==
    \/ \E event \in Events, checked \in BOOLEAN : Event(event, checked)
    \/ \E k \in 1..Len(make_context_menu), checked \in BOOLEAN : CtxActivate(k, checked)
    \/ \E popup \in BOOLEAN : DispatchCommand(popup)
    \/ Update
    \/ \E event \in LifeCycles : Lifecycle(event)
    \/ Paint

SpecWidget == Init /\ [][NextWidget]_vars

\* The events that do something: they open the context menu or click a button.
ActingEvents ==
    {event \in Events : \/ controller_event(event).shown # <<>>
                        \/ ChildClick(controller_event(event).forwarded) # NoButton}

\* The State, the windows and their menus: the buttons, the context menu,
\* the menu items, windows opening and closing, and the update pass.
NextMenu ==
    \/ WindowAdded
    \/ \E id \in WindowIds : WindowRemoved(id)
    \/ \E popup \in BOOLEAN : DispatchCommand(popup)
    \/ \E event \in ActingEvents, checked \in BOOLEAN : Event(event, checked)
    \/ \E k \in 1..Len(make_context_menu), checked \in BOOLEAN : CtxActivate(k, checked)
    \/ \E w \in WindowIds, k \in 1..MaxCount : MenuActivate(w, k)
    \/ Update

SpecMenu == Init /\ [][NextMenu]_vars

\* The pure functions make_menu and rebuild_on, applied to every State and
\* every pair of States.
InitFn ==
    /\ InitCommon
    /\ data \in States
    /\ old_data \in States

\* The State becomes any State.
PickState(new) ==
    /\ data' = new
    /\ last' = [op |-> "pick"]
    /\ UNCHANGED <<platform, running, old_data, pending_update, windows, notif, nextId,
                   pending, menus, cmdQueue, is_hot, paint_requested, ctxMenu>>

\* The old State becomes any State.
PickOldState(old) ==
    /\ old_data' = old
    /\ last' = [op |-> "pick"]
    /\ UNCHANGED <<platform, running, data, pending_update, windows, notif, nextId,
                   pending, menus, cmdQueue, is_hot, paint_requested, ctxMenu>>

\* make_menu(_, &data, _) builds the menu of the main window.
ApplyMakeMenu ==
    /\ menus' = [menus EXCEPT ![MainWindow] = make_menu(platform, data)]
    /\ last' = [op |-> "make_menu"]
    /\ UNCHANGED <<platform, running, data, old_data, pending_update, windows, notif,
                   nextId, pending, cmdQueue, is_hot, paint_requested, ctxMenu>>

\* The menu's rebuild_on closure is asked about (old_data, data).
ApplyRebuildOn ==
    /\ last' = [op |-> "rebuild_on", result |-> rebuild_on(old_data, data)]
    /\ UNCHANGED <<platform, running, data, old_data, pending_update, windows, notif,
                   nextId, pending, menus, cmdQueue, is_hot, paint_requested, ctxMenu>>

NextFn ==
    \/ \E new \in States : PickState(new)
    \/ \E old \in States : PickOldState(old)
    \/ ApplyMakeMenu
    \/ ApplyRebuildOn

SpecFn == InitFn /\ [][NextFn]_vars

\* ---------------------------------------------------------------- claims
\* id is not an element of the list ws.
Absent(ws, id) == \A k \in 1..Len(ws) : ws[k] # id

\* C1: after any interleaving of window-added and window-removed
\* notifications the length of the delegate's list is the number of added
\* notifications minus the number of removed notifications whose id was in
\* the list; that number is never negative and no id is in the list twice.
C1_WindowCount ==
    /\ Len(windows) = notif.added - notif.removed
    /\ notif.added - notif.removed >= 0
    /\ \A i, j \in 1..Len(windows) : i # j => windows[i] # windows[j]

\* C1's case: windows were added, one was removed while present, one removal
\* came for an absent id, and windows remain.
C1_Witness ==
    /\ notif.added >= 2
    /\ notif.removed >= 1
    /\ Len(windows) >= 1
    /\ last.op = "window_removed"
    /\ Absent(last.before, last.id)

\* C2: window_removed(id) for an id that is not in the list leaves the list,
\* contents and order, exactly as it was.
C2_RemoveAbsentNoop ==
    (last.op = "window_removed" /\ Absent(last.before, last.id)) => windows = last.before

\* C2's case: a removal for an absent id (one removed before) met a list of
\* two windows.
C2_Witness ==
    /\ last.op = "window_removed"
    /\ Absent(last.before, last.id)
    /\ Len(last.before) >= 2
    /\ notif.removed >= 1

\* C3: Delegate::command returns Handled::Yes for the open-new-window
\* command, whatever the target, and Handled::No for every other command.
C3_Handled ==
    last.op = "command" =>
        /\ last.handled \in {"Yes", "No"}
        /\ last.handled = "Yes" <=> last.cmd = "NEW_FILE"

\* C3's case: the open-new-window command, addressed to one window and not
\* to Global, was handled while two windows were open.
C3_Witness ==
    /\ last.op = "command"
    /\ last.cmd = "NEW_FILE"
    /\ last.target.kind = "Window"
    /\ last.handled = "Yes"
    /\ Len(windows) >= 2

\* C4 as claimed: every handled open-new-window command issues exactly one
\* new-window request, whose menu is make_menu's; other commands issue none.
C4_OneRequestAlways ==
    last.op = "command" =>
        IF last.cmd = "NEW_FILE"
        THEN Len(last.requests) = 1 /\ last.requests[1].menu = "make_menu"
        ELSE last.requests = <<>>

\* C4, amended: a handled open-new-window command issues exactly one
\* new-window request, whose menu is make_menu's, unless the build is wasm
\* and window.open() gave no window, where it issues none; other commands
\* issue none.
C4_OneRequestUnlessBlocked ==
    last.op = "command" =>
        IF last.cmd = "NEW_FILE" /\ ~last.blocked
        THEN /\ Len(last.requests) = 1
             /\ last.requests[1].menu = "make_menu"
             /\ pending # <<>> /\ pending[Len(pending)] = last.requests[1]
        ELSE last.requests = <<>>

\* C4's case: on wasm one command opened its window and is queued at the
\* host behind an earlier request.
C4_Witness ==
    /\ last.op = "command"
    /\ last.cmd = "NEW_FILE"
    /\ platform = "wasm"
    /\ ~last.blocked
    /\ Len(last.requests) = 1
    /\ Len(pending) >= 2

\* C5: make_menu gives no dynamic section for menu_count = 0 and otherwise
\* exactly one Custom submenu of menu_count items with the indices 1, 2, ...
\* in ascending order.
C5_MenuShape ==
    last.op = "make_menu" =>
        LET menu == menus[MainWindow]
            n == data.menu_count IN
        /\ n = 0 => Len(CustomMenus(menu)) = 0
        /\ n > 0 => /\ Len(CustomMenus(menu)) = 1
                    /\ Len(CustomMenus(menu)[1].items) = n
                    /\ \A k \in 1..n : CustomMenus(menu)[1].items[k].label = k

\* C5's case: a menu was built for the largest menu_count.
C5_Witness ==
    /\ last.op = "make_menu"
    /\ data.menu_count = MaxCount
    /\ Len(DynamicItems(menus[MainWindow])) = MaxCount

\* C6: for every State, the i-th dynamic item is disabled iff i mod 3 = 0 and
\* is marked selected iff i is the State's selected.
C6_ItemFlags ==
    \A k \in 1..Len(DynamicItems(menus[MainWindow])) :
        LET item == DynamicItems(menus[MainWindow])[k] IN
        /\ ~EnabledIf(item, data) <=> k % 3 = 0
        /\ SelectedIf(item, data) <=> k = data.selected

\* C6's case: a menu of at least three items is evaluated against a State
\* other than the one it was built from, whose selected is the third item.
C6_Witness ==
    /\ last.op = "pick"
    /\ Len(DynamicItems(menus[MainWindow])) >= 3
    /\ data.menu_count # Len(DynamicItems(menus[MainWindow]))
    /\ data.selected = 3

\* C7: the rebuild predicate is true iff the two menu_count values differ;
\* for two States that differ only in selected and/or glow_hot it is false.
C7_RebuildPredicate ==
    last.op = "rebuild_on" =>
        /\ last.result <=> old_data.menu_count # data.menu_count
        /\ (old_data # data /\ old_data.menu_count = data.menu_count) => ~last.result

\* C7's case: the predicate was asked about two States that differ in
\* selected and in glow_hot and in nothing else.
C7_Witness ==
    /\ last.op = "rebuild_on"
    /\ old_data.menu_count = data.menu_count
    /\ old_data.selected # data.selected
    /\ old_data.glow_hot # data.glow_hot
    /\ ~last.result

\* C8: a paint call paints the highlight iff glow_hot holds and the widget
\* is hot at that call, whether or not a repaint had been requested.
C8_PaintDecision ==
    last.op = "paint" => (last.highlight <=> (data.glow_hot /\ is_hot))

\* C8's case: a paint pass nobody requested painted the highlight.
C8_Witness ==
    /\ last.op = "paint"
    /\ ~last.requested
    /\ last.highlight

\* C9: a HotChanged lifecycle event, and an update whose old and new State
\* differ in glow_hot, leave a repaint requested when the callback returns.
C9_RepaintRequested ==
    /\ (last.op = "lifecycle" /\ last.event.type = "HotChanged") => paint_requested
    /\ (last.op = "update" /\ last.glow_changed) => paint_requested

\* C9's case: an update that saw glow_hot change made the request (none was
\* outstanding before it).
C9_Witness ==
    /\ last.op = "update"
    /\ last.glow_changed
    /\ ~last.before
    /\ paint_requested

\* C10: a mouse-down of the right button shows the context menu at the
\* event's position and reaches the child not at all; every other event
\* reaches the child unchanged, once, and shows no menu.
C10_ContextMenu ==
    last.op = "event" =>
        IF last.event.type = "MouseDown" /\ last.event.button = "right"
        THEN /\ Len(last.shown) = 1
             /\ last.shown[1].pos = last.event.pos
             /\ last.forwarded = <<>>
             /\ ctxMenu = last.shown[1].menu /\ ctxMenu # <<>>
        ELSE /\ last.forwarded = <<last.event>>
             /\ last.shown = <<>>

\* C10's case: the right button went down over a button of the child.
C10_Witness ==
    /\ last.op = "event"
    /\ last.event.type = "MouseDown"
    /\ last.event.button = "right"
    /\ last.event.pos = "inc"
    /\ ctxMenu # <<>>

\* C11 as claimed: an increment control raises menu_count by exactly 1, a
\* decrement control lowers it by exactly 1 and leaves 0 at 0, and the count
\* stays within the machine integer without wrapping.
C11_StepByOne ==
    (last.op \in {"event", "ctx_activate"}) =>
        /\ last.control = "inc" =>
              ~last.panicked /\ data.menu_count = last.before.menu_count + 1
        /\ last.control = "dec" =>
              data.menu_count = IF last.before.menu_count = 0 THEN 0
                                ELSE last.before.menu_count - 1
        /\ data.menu_count \in 0..UsizeMax

\* C12: selected starts at 0 and every step that changes it sets it to an
\* index i with 1 <= i <= menu_count, menu_count being the count at that step:
\* no activation selects an index that has no menu item.
C12_SelectedWasValid ==
    /\ data.selected = 0
    /\ [][data'.selected # data.selected =>
             (1 <= data'.selected /\ data'.selected <= data.menu_count)]_vars

\* C12's case: an item was selected and menu_count then shrank below it.
C12_Witness ==
    /\ data.selected >= 2
    /\ data.menu_count < data.selected
    /\ last.op = "update"

\* C13: a step changes the delegate's list only if it is a window-added or
\* a window-removed notification (no command and no button, menu or
\* context-menu activation does), and an id enters the list only in the
\* window-added notification for that id.
C13_WindowsFrame ==
    [][/\ windows' # windows => last'.op \in {"window_added", "window_removed"}
       /\ \A id \in WindowIds :
             (Absent(windows, id) /\ ~Absent(windows', id)) =>
                 (last'.op = "window_added" /\ last'.id = id)]_vars

\* C13's case: the open-new-window command was handled and the window it
\* asked for is not in the list, which holds other windows.
C13_Witness ==
    /\ last.op = "command"
    /\ last.cmd = "NEW_FILE"
    /\ Len(last.requests) = 1
    /\ Absent(windows, last.requests[1].id)
    /\ Len(windows) >= 1

\* C14: a window-added notification, a window-removed notification and a
\* command handled by the delegate leave the State as it was.
C14_StateFrame ==
    [][last'.op \in {"window_added", "window_removed", "command"} => data' = data]_vars

\* C14's case: the delegate handled the open-new-window command in a State
\* with a selection, a glow flag and menu items.
C14_Witness ==
    /\ last.op = "command"
    /\ last.cmd = "NEW_FILE"
    /\ data.selected >= 1
    /\ data.glow_hot
    /\ data.menu_count >= 1

\* The list without the element at index p, the others in their order.
IsListWithout(after, before, p) ==
    /\ Len(after) = Len(before) - 1
    /\ \A i \in 1..Len(after) : after[i] = IF i < p THEN before[i] ELSE before[i + 1]

\* The index of the first occurrence of id in a list that holds it.
FirstOccurrence(ws, id) ==
    CHOOSE i \in 1..Len(ws) : ws[i] = id /\ \A j \in 1..(i - 1) : ws[j] # id

\* C15: after window_removed(id) the list is the list before without the
\* first occurrence of id (the list before, if id was not in it), id is not
\* in the list, and window_removed(id) once more gives the same list.
C15_RemoveFirstIdempotent ==
    last.op = "window_removed" =>
        /\ IF Absent(last.before, last.id)
           THEN windows = last.before
           ELSE IsListWithout(windows, last.before, FirstOccurrence(last.before, last.id))
        /\ Absent(windows, last.id)
        /\ window_removed(windows, last.id) = windows

\* C15's case: the first of three listed windows was removed.
C15_Witness ==
    /\ last.op = "window_removed"
    /\ Len(last.before) = 3
    /\ last.before[1] = last.id
    /\ Len(windows) = 2

\* The ids of a list other than id, in the list's order.
Others(ws, id) == SelectSeq(ws, LAMBDA x : x # id)

\* C16: the list starts empty; a window-added notification appends its id,
\* which was not listed, at the end; a window-removed notification leaves
\* the other ids, in their order, and nothing else.  So the list is the open
\* windows in the order of their window-added notifications.
C16_OpenInOrder ==
    /\ windows = <<>>
    /\ [][/\ (last' # last /\ last'.op = "window_added") =>
                (Absent(windows, last'.id) /\ windows' = Append(windows, last'.id))
          /\ (last' # last /\ last'.op = "window_removed") =>
                windows' = Others(windows, last'.id)]_vars

\* C16's case: of three open windows the one added first was closed; the two
\* added later remain, the later one last.
C16_Witness ==
    /\ last.op = "window_removed"
    /\ Len(last.before) = 3
    /\ last.before[1] = last.id
    /\ windows = <<last.before[2], last.before[3]>>
    /\ notif.added = 3

\* The positions of the dynamic items of a menu that are marked selected
\* when the menu is evaluated against a State.
Marked(menu, state) ==
    {k \in 1..Len(DynamicItems(menu)) : SelectedIf(DynamicItems(menu)[k], state)}

\* C17: in a menu built by make_menu and evaluated against any State, at
\* most one dynamic item is marked selected; exactly one is marked when
\* selected is in 1..(number of items), none when selected is 0 or above
\* the number of items; a menu just built has menu_count items.
C17_AtMostOneSelected ==
    LET n == Len(DynamicItems(menus[MainWindow]))
        marked == Marked(menus[MainWindow], data) IN
    /\ Cardinality(marked) <= 1
    /\ (1 <= data.selected /\ data.selected <= n) => marked = {data.selected}
    /\ (data.selected = 0 \/ data.selected > n) => marked = {}
    /\ last.op = "make_menu" => n = data.menu_count

\* C17's case: a menu with items was built for a State whose selection lies
\* above menu_count, and marks nothing.
C17_Witness ==
    /\ last.op = "make_menu"
    /\ data.menu_count >= 1
    /\ data.selected > data.menu_count
    /\ Marked(menus[MainWindow], data) = {}

\* The titles of the context menu, in order.
ContextTitles == <<"Increment", "Decrement", "Glow when hot">>

\* C18: a context menu on screen has the three entries Increment, Decrement,
\* Glow when hot, in this order, whatever the State; activating Increment or
\* Decrement leaves selected and glow_hot as they were, activating the glow
\* entry negates glow_hot and leaves menu_count and selected, and activating
\* dynamic menu item i sets selected and leaves menu_count and glow_hot.
C18_OwnFieldOnly ==
    /\ ctxMenu # <<>> =>
          /\ Len(ctxMenu) = Len(ContextTitles)
          /\ \A k \in 1..Len(ctxMenu) : ctxMenu[k].title = ContextTitles[k]
    /\ last.op = "ctx_activate" =>
          /\ last.title = ContextTitles[last.entry]
          /\ last.title \in {"Increment", "Decrement"} =>
                /\ data.selected = last.before.selected
                /\ data.glow_hot = last.before.glow_hot
          /\ last.title = "Glow when hot" =>
                /\ data.glow_hot = ~last.before.glow_hot
                /\ data.menu_count = last.before.menu_count
                /\ data.selected = last.before.selected
    /\ last.op = "menu_activate" =>
          /\ data.selected = last.item
          /\ data.menu_count = last.before.menu_count
          /\ data.glow_hot = last.before.glow_hot

\* C18's case: the Decrement entry was activated with the last item
\* selected and the glow flag set; the selection is now above menu_count.
C18_Witness ==
    /\ last.op = "ctx_activate"
    /\ last.title = "Decrement"
    /\ last.before.selected = last.before.menu_count
    /\ last.before.selected >= 1
    /\ data.glow_hot
    /\ data.selected > data.menu_count

\* C19: selected is never a nonzero multiple of 3: the State starts with
\* selected = 0, only the activation of dynamic item i sets selected, to i,
\* and item i cannot be activated when i mod 3 = 0.
C19_SelectedNeverDisabled ==
    data.selected = 0 \/ data.selected % DisabledEvery # 0

\* C19's case: the menu holds the disabled item 3 and an item was selected
\* from it.
C19_Witness ==
    /\ last.op = "menu_activate"
    /\ Len(DynamicItems(menus[last.window])) >= DisabledEvery
    /\ ~EnabledIf(DynamicItems(menus[last.window])[DisabledEvery], data)
    /\ data.selected # 0

\* The dynamic items of two menus agree, evaluated against a State, in
\* number, indices, enabled flags and selected marks.
SameItems(shown, fresh, state) ==
    /\ Len(DynamicItems(shown)) = Len(DynamicItems(fresh))
    /\ \A k \in 1..Len(DynamicItems(shown)) :
          /\ DynamicItems(shown)[k].label = DynamicItems(fresh)[k].label
          /\ DynamicItems(shown)[k].on_activate = DynamicItems(fresh)[k].on_activate
          /\ EnabledIf(DynamicItems(shown)[k], state) = EnabledIf(DynamicItems(fresh)[k], state)
          /\ SelectedIf(DynamicItems(shown)[k], state) = SelectedIf(DynamicItems(fresh)[k], state)

\* C20: once the update pass has run, the menu on display in every open
\* window, the windows opened later included, has the items, indices,
\* enabled flags and selected marks of make_menu applied to the current
\* State.
C20_MenuAsRebuilt ==
    ~pending_update =>
        \A i \in 1..Len(windows) :
            SameItems(menus[windows[i]], make_menu(platform, data), data)

\* C20's case: two windows are open and the update pass has run on a State
\* whose menu_count shrank below the selected item and is not 0.
C20_Witness ==
    /\ last.op = "update"
    /\ ~pending_update
    /\ Len(windows) >= 2
    /\ data.menu_count >= 1
    /\ data.selected > data.menu_count
    /\ Len(DynamicItems(menus[windows[2]])) = data.menu_count

====
